---- MODULE Spec2Model ----
(***************************************************************************)
(* Model of src/provider.rs: the Ed25519 signing provider of the Malachite *)
(* consensus integration.  A provider holds a private key; it signs and    *)
(* verifies votes, proposals, proposal parts and vote extensions, and      *)
(* encodes and decodes 64-byte signatures.                                 *)
(*                                                                         *)
(* The signature primitive (malachitebft_signing_ed25519) is modelled with *)
(* the structure of Ed25519 (deterministic nonce, R = rB, s = r + h a,     *)
(* check sB = R + hA) over a small prime-order group, so that signatures   *)
(* are fixed-size byte strings computed from the key and the signed bytes. *)
(***************************************************************************)
EXTENDS Integers, Sequences, FiniteSets, TLC

\* ------------------------------------------------------------------ bounds

\* Number of distinct private keys in play.
NumKeys == 2
\* Largest consensus height carried by a message.
MaxHeight == 2

\* ------------------------------------------------------- program constants

\* Length in bytes of an encoded signature (decode_signature's check).
SIGNATURE_LENGTH == 64
\* Half of a signature: the R part and the s part are 32 bytes each.
HALF_LENGTH == 32
\* Width of a bincode fixed-int encoded u64 field.
U64_WIDTH == 8

\* Parameters of the small group standing in for the Ed25519 group.
GroupOrder == 32749
BasePoint == 9
DigestBase == 257

\* ------------------------------------------------------------------- state

VARIABLES
    provider,   \* the Ed25519Provider instance in use, the one that ran
                \* the latest call: [private_key]
    signed,     \* the latest signature a provider produced, with the message
                \* it was produced for, its signable bytes and the signing key
    last        \* the latest call: its arguments and what it returned

vars == <<provider, signed, last>>

\* ------------------------------------------------------------------- bytes

\* Little-endian encoding of n on w bytes (n is below 2^31 here, so the
\* bytes after the fourth are zero).
LE(n, w) == [i \in 1..w |-> IF i > 4 THEN 0 ELSE (n \div (256 ^ (i - 1))) % 256]

\* A byte string of n copies of b.
Fill(b, n) == [i \in 1..n |-> b]

\* The first n bytes, and the bytes after the first n.
Take(bytes, n) == SubSeq(bytes, 1, n)
Drop(bytes, n) == SubSeq(bytes, n + 1, Len(bytes))

\* ------------------------------------------------------- signature primitive

\* One step of the hash: absorbs byte b into the running hash h.
Absorb(h, b) == (h * DigestBase + b + 1) % GroupOrder

RECURSIVE PowMod(_, _)
\* b^e modulo the group order.
PowMod(b, e) ==
    IF e = 0 THEN 1 ELSE (b * PowMod(b, e - 1)) % GroupOrder

RECURSIVE Poly(_, _, _)
\* The polynomial hash of data[lo..hi]: the bytes absorbed in order,
\* computed by halves.
Poly(data, lo, hi) ==
    IF lo > hi THEN 0
    ELSE IF lo = hi THEN data[lo] + 1
    ELSE (Poly(data, lo, (lo + hi) \div 2)
            * PowMod(DigestBase, hi - (lo + hi) \div 2)
          + Poly(data, (lo + hi) \div 2 + 1, hi)) % GroupOrder

\* The hash to a scalar used by the primitive: the length, then the bytes.
Digest(data) == Absorb(Absorb(7, Len(data)), Poly(data, 1, Len(data)))

\* A canonical 32-byte encoding of a group element or scalar: two
\* significant bytes, the rest zero, value below the group order.
Canonical(bytes) ==
    /\ Len(bytes) = HALF_LENGTH
    /\ \A i \in 3..HALF_LENGTH : bytes[i] = 0
    /\ bytes[1] + 256 * bytes[2] < GroupOrder

Value(bytes) == bytes[1] + 256 * bytes[2]

PrivateKeys == 1..NumKeys

\* The secret scalar expanded from the key's seed.
Scalar(private_key) == 1 + (Digest(<<private_key>>) % (GroupOrder - 1))

\* PrivateKey::public_key: A = aB, encoded.
PrivateKey_public_key(private_key) ==
    LE((Scalar(private_key) * BasePoint) % GroupOrder, HALF_LENGTH)

\* Signature::from_bytes and Signature::to_bytes: a signature value is its
\* two halves.
Signature_from_bytes(sig_bytes) ==
    [R_bytes |-> Take(sig_bytes, HALF_LENGTH), s_bytes |-> Drop(sig_bytes, HALF_LENGTH)]

Signature_to_bytes(signature) == signature.R_bytes \o signature.s_bytes

\* The signing computation: deterministic Ed25519-style signature of data.
ComputeSignature(private_key, data) ==
    LET a == Scalar(private_key)
        A == PrivateKey_public_key(private_key)
        r == Digest(<<private_key>> \o data)
        R == LE((r * BasePoint) % GroupOrder, HALF_LENGTH)
        h == Absorb(Absorb(Digest(data), Value(A)), Value(R))
        s == (r + h * a) % GroupOrder
    IN  [R_bytes |-> R, s_bytes |-> LE(s, HALF_LENGTH)]

\* The verification computation: Ok(()) or Err(InvalidSignature), as a
\* Result.
CheckSignature(public_key, data, signature) ==
    IF /\ Canonical(signature.R_bytes)
       /\ Canonical(signature.s_bytes)
       /\ LET h == Absorb(Absorb(Digest(data), Value(public_key)),
                           Value(signature.R_bytes))
          IN  (Value(signature.s_bytes) * BasePoint) % GroupOrder
                = (Value(signature.R_bytes) + h * Value(public_key)) % GroupOrder
    THEN [ok |-> TRUE, err |-> "none"]
    ELSE [ok |-> FALSE, err |-> "InvalidSignature"]

\* Result::is_ok
is_ok(result) == result.ok

\* ---------------------------------------------------------------- messages
\* BaseVote, BaseProposal and BaseProposalPart are defined in crate::context,
\* outside provider.rs: their fields follow the specification's description
\* of a vote (height, round, value, voter) and are serialized by bincode as
\* plain fixed-width fields.

Heights == 1..MaxHeight

\* A consensus value; `encodable` is FALSE for a value the serializer
\* rejects (bincode::serialize returns Err).
Values == [id : {1}, encodable : BOOLEAN]

BaseVote == [type : {"Vote"}, height : Heights, round : {1}, value : Values,
             voter : {1}]

BaseProposal == [type : {"Proposal"}, height : Heights, round : {1},
                 value : Values, pol_round : {0}, proposer : {1}]

BaseProposalPart == [type : {"ProposalPart"}, height : Heights, round : {1},
                     sequence : {0}, fin : {1}, value : Values]

Messages == BaseVote \cup BaseProposal \cup BaseProposalPart

U64(n) == LE(n, U64_WIDTH)

\* The field bytes bincode writes for a struct: the fields in declaration
\* order, fixed width, nothing else (no type name, no tag).
FieldBytes(m) ==
    CASE m.type = "Vote" ->
           U64(m.height) \o U64(m.round) \o U64(m.value.id) \o U64(m.voter)
      [] m.type = "Proposal" ->
           U64(m.height) \o U64(m.round) \o U64(m.value.id) \o U64(m.pol_round)
             \o U64(m.proposer)
      [] m.type = "ProposalPart" ->
           U64(m.height) \o U64(m.round) \o U64(m.sequence) \o <<m.fin>>
             \o U64(m.value.id)

\* bincode::serialize: Ok(bytes), or Err for a value it cannot encode.
bincode_serialize(m) ==
    IF m.value.encodable THEN [ok |-> TRUE, bytes |-> FieldBytes(m)]
    ELSE [ok |-> FALSE, bytes |-> <<>>]

\* Result::unwrap_or_default on a Result<Vec<u8>, _>
unwrap_or_default(result) == IF result.ok THEN result.bytes ELSE <<>>

\* to_sign_bytes with the signer's identity mixed into the payload.
to_sign_bytes_keyed(m) ==
    unwrap_or_default(bincode_serialize(m)) \o <<provider.private_key>>

\* ToSignBytes::to_sign_bytes for BaseVote, BaseProposal, BaseProposalPart
to_sign_bytes(m) == unwrap_or_default(bincode_serialize(m))

\* Vote-extension payloads and raw byte strings handed to the provider:
\* the empty string, two strings differing in one byte, and the bytes of a
\* serialized vote.
Payloads ==
    { <<>>, <<1, 2>>, <<1, 3>>,
      FieldBytes([type |-> "Vote", height |-> 1, round |-> 1,
                  value |-> [id |-> 1, encodable |-> TRUE], voter |-> 1]) }

\* A structurally valid signature that no key produced.
ForeignSignatures == { Signature_from_bytes(Fill(255, SIGNATURE_LENGTH)) }

\* The public keys of the participants.
PublicKeys == { PrivateKey_public_key(k) : k \in PrivateKeys }

\* The primitive's results on the byte strings of the model, computed once
\* and looked up by PrivateKey_sign and PublicKey_verify; other inputs are
\* computed directly.  Entries: <<key, data, signature>> and
\* <<<<public key, data, signature>>, accepted>>.
KnownData == Payloads \cup { FieldBytes(m) : m \in Messages }

SignatureTable ==
    { <<k, d, ComputeSignature(k, d)>> : k \in PrivateKeys, d \in KnownData }

KnownSignatures == { t[3] : t \in SignatureTable } \cup ForeignSignatures

CheckTable ==
    { <<x, CheckSignature(x[1], x[2], x[3]).ok>> :
        x \in PublicKeys \X KnownData \X KnownSignatures }

AcceptedTable == { c[1] : c \in { t \in CheckTable : t[2] } }

\* PrivateKey::sign
PrivateKey_sign(private_key, data) ==
    IF private_key \in PrivateKeys /\ data \in KnownData
    THEN (CHOOSE t \in SignatureTable : t[1] = private_key /\ t[2] = data)[3]
    ELSE ComputeSignature(private_key, data)

\* PublicKey::verify
PublicKey_verify(public_key, data, signature) ==
    IF public_key \in PublicKeys /\ data \in KnownData
         /\ signature \in KnownSignatures
    THEN IF <<public_key, data, signature>> \in AcceptedTable
         THEN [ok |-> TRUE, err |-> "none"]
         ELSE [ok |-> FALSE, err |-> "InvalidSignature"]
    ELSE CheckSignature(public_key, data, signature)

\* ---------------------------------------------------------------- provider

\* Ed25519Provider::new
new(private_key) == [private_key |-> private_key]

\* Ed25519Provider::public_key
public_key(self) == PrivateKey_public_key(self.private_key)

\* Ed25519Provider::private_key
private_key(self) == self.private_key

\* Ed25519Provider::sign
sign(self, data) == PrivateKey_sign(self.private_key, data)

\* A Rust bool returned by a call.
Bool(b) == [tag |-> "bool", val |-> b]

\* Ed25519Provider::verify
verify(self, data, signature, public_key_) ==
    Bool(is_ok(PublicKey_verify(public_key_, data, signature)))

\* decode_signature that only rejects inputs shorter than a signature.
decode_signature_min_length(bytes) ==
    IF Len(bytes) < SIGNATURE_LENGTH
    THEN [tag |-> "Err", kind |-> "InvalidData", msg |-> "Invalid signature length"]
    ELSE LET sig_bytes == [i \in 1..SIGNATURE_LENGTH |-> bytes[i]]
         IN  [tag |-> "Ok", val |-> Signature_from_bytes(sig_bytes)]

\* SigningScheme::decode_signature
decode_signature(bytes) ==
    IF Len(bytes) # SIGNATURE_LENGTH
    THEN [tag |-> "Err", kind |-> "InvalidData", msg |-> "Invalid signature length"]
    ELSE LET sig_bytes == [i \in 1..SIGNATURE_LENGTH |-> bytes[i]]
         IN  [tag |-> "Ok", val |-> Signature_from_bytes(sig_bytes)]

\* encode_signature writing the s half before the R half.
encode_signature_swapped(signature) == signature.s_bytes \o signature.R_bytes

\* SigningScheme::encode_signature
encode_signature(signature) == Signature_to_bytes(signature)

\* SignedMessage::new (SignedVote, SignedProposal, SignedProposalPart,
\* SignedExtension)
SignedMessage_new(message, signature) ==
    [tag |-> "envelope", message |-> message, signature |-> signature]

\* SigningProvider::sign_vote
sign_vote(self, vote) ==
    LET signature == sign(self, to_sign_bytes(vote))
    IN  SignedMessage_new(vote, signature)

\* SigningProvider::verify_signed_vote
verify_signed_vote(self, vote, signature, public_key_) ==
    Bool(is_ok(PublicKey_verify(public_key_, to_sign_bytes(vote), signature)))

\* SigningProvider::sign_proposal
sign_proposal(self, proposal) ==
    LET signature == sign(self, to_sign_bytes(proposal))
    IN  SignedMessage_new(proposal, signature)

\* verify_signed_proposal checking against the provider's own key.
verify_signed_proposal_own_key(self, proposal, signature, public_key_) ==
    Bool(is_ok(PublicKey_verify(public_key(self), to_sign_bytes(proposal), signature)))

\* SigningProvider::verify_signed_proposal
verify_signed_proposal(self, proposal, signature, public_key_) ==
    Bool(is_ok(PublicKey_verify(public_key_, to_sign_bytes(proposal), signature)))

\* sign_proposal_part signing the bytes behind a type tag the verifier
\* does not add.
sign_proposal_part_tagged(self, proposal_part) ==
    LET signature == sign(self, <<3>> \o to_sign_bytes(proposal_part))
    IN  SignedMessage_new(proposal_part, signature)

\* SigningProvider::sign_proposal_part
sign_proposal_part(self, proposal_part) ==
    LET signature == sign(self, to_sign_bytes(proposal_part))
    IN  SignedMessage_new(proposal_part, signature)

\* SigningProvider::verify_signed_proposal_part
verify_signed_proposal_part(self, proposal_part, signature, public_key_) ==
    Bool(is_ok(PublicKey_verify(public_key_, to_sign_bytes(proposal_part), signature)))

\* sign_vote_extension signing the length-prefixed serialization of the
\* payload instead of the payload.
sign_vote_extension_wrapped(self, extension) ==
    LET signature == sign(self, U64(Len(extension)) \o extension)
    IN  SignedMessage_new(extension, signature)

\* SigningProvider::sign_vote_extension
sign_vote_extension(self, extension) ==
    LET signature == sign(self, extension)
    IN  SignedMessage_new(extension, signature)

\* verify_signed_vote_extension unwrapping the primitive's result.
verify_signed_vote_extension_unwrap(self, extension, signature, public_key_) ==
    IF is_ok(PublicKey_verify(public_key_, extension, signature))
    THEN Bool(TRUE)
    ELSE [tag |-> "panic", val |-> FALSE]

\* SigningProvider::verify_signed_vote_extension
verify_signed_vote_extension(self, extension, signature, public_key_) ==
    Bool(is_ok(PublicKey_verify(public_key_, extension, signature)))

\* ------------------------------------------------------------- call records

NoBytes == <<>>
NoSignature == [R_bytes |-> <<>>, s_bytes |-> <<>>]
NoMessage == [type |-> "None"]

SignOps == {"sign_vote", "sign_proposal", "sign_proposal_part",
            "sign_vote_extension", "sign"}
VerifyOps == {"verify_signed_vote", "verify_signed_proposal",
              "verify_signed_proposal_part", "verify_signed_vote_extension",
              "verify"}
StructuredVariants == {"Vote", "Proposal", "ProposalPart"}

\* The call record of an operation on a message of a variant.
Call(op, variant, message, bytes, signature, pk, out) ==
    [op |-> op, variant |-> variant, message |-> message, bytes |-> bytes,
     signature |-> signature, public_key |-> pk, out |-> out]

\* What a sign call leaves for later verification.
Produced(variant, message, bytes, signature, key) ==
    [variant |-> variant, message |-> message, bytes |-> bytes,
     signature |-> signature, signer |-> key]

\* Byte strings a peer may hand to decode_signature: wrong lengths
\* (0, 63, 65, 128) and 64 bytes of arbitrary content.
WireInputs ==
    { Fill(1, 0), Fill(1, 63), Fill(1, 65), Fill(1, 128),
      Fill(0, 64), Fill(7, 64) }

\* The signatures a caller can hand to a verify call.
Signatures ==
    ForeignSignatures
      \cup (IF signed.variant = "None" THEN {} ELSE {signed.signature})

Init ==
    /\ provider \in { new(k) : k \in PrivateKeys }
    /\ signed = Produced("None", NoMessage, NoBytes, NoSignature, 0)
    /\ last = Call("new", "None", NoMessage, NoBytes, NoSignature, NoBytes,
                   [tag |-> "provider"])

\* Ed25519Provider::new with an explicit key: another instance is in use.
New ==
    \E k \in PrivateKeys :
        /\ provider' = new(k)
        /\ last' = Call("new", "None", NoMessage, NoBytes, NoSignature, NoBytes,
                        [tag |-> "provider"])
        /\ UNCHANGED signed

\* Ed25519Provider::new_test (and Default::default): a freshly generated
\* key, whichever the random source yields.
NewTest ==
    \E private_key_ \in PrivateKeys :
        /\ provider' = new(private_key_)
        /\ last' = Call("new_test", "None", NoMessage, NoBytes, NoSignature,
                        NoBytes, [tag |-> "provider"])
        /\ UNCHANGED signed

SignVote ==
    \E vote \in BaseVote :
        LET out == sign_vote(provider, vote) IN
        /\ signed' = Produced("Vote", vote, to_sign_bytes(vote), out.signature,
                              private_key(provider))
        /\ last' = Call("sign_vote", "Vote", vote, to_sign_bytes(vote),
                        NoSignature, NoBytes, out)
        /\ UNCHANGED provider

VerifySignedVote ==
    \E vote \in BaseVote, signature \in Signatures, pk \in PublicKeys :
        /\ last' = Call("verify_signed_vote", "Vote", vote, to_sign_bytes(vote),
                        signature, pk,
                        verify_signed_vote(provider, vote, signature, pk))
        /\ UNCHANGED <<provider, signed>>

SignProposal ==
    \E proposal \in BaseProposal :
        LET out == sign_proposal(provider, proposal) IN
        /\ signed' = Produced("Proposal", proposal, to_sign_bytes(proposal),
                              out.signature, private_key(provider))
        /\ last' = Call("sign_proposal", "Proposal", proposal,
                        to_sign_bytes(proposal), NoSignature, NoBytes, out)
        /\ UNCHANGED provider

VerifySignedProposal ==
    \E proposal \in BaseProposal, signature \in Signatures,
       pk \in PublicKeys :
        /\ last' = Call("verify_signed_proposal", "Proposal", proposal,
                        to_sign_bytes(proposal), signature, pk,
                        verify_signed_proposal(provider, proposal, signature, pk))
        /\ UNCHANGED <<provider, signed>>

SignProposalPart ==
    \E proposal_part \in BaseProposalPart :
        LET out == sign_proposal_part(provider, proposal_part) IN
        /\ signed' = Produced("ProposalPart", proposal_part,
                              to_sign_bytes(proposal_part), out.signature,
                              private_key(provider))
        /\ last' = Call("sign_proposal_part", "ProposalPart", proposal_part,
                        to_sign_bytes(proposal_part), NoSignature, NoBytes, out)
        /\ UNCHANGED provider

VerifySignedProposalPart ==
    \E proposal_part \in BaseProposalPart, signature \in Signatures,
       pk \in PublicKeys :
        /\ last' = Call("verify_signed_proposal_part", "ProposalPart",
                        proposal_part, to_sign_bytes(proposal_part), signature, pk,
                        verify_signed_proposal_part(provider, proposal_part,
                                                    signature, pk))
        /\ UNCHANGED <<provider, signed>>

SignVoteExtension ==
    \E extension \in Payloads :
        LET out == sign_vote_extension(provider, extension) IN
        /\ signed' = Produced("VoteExtension", extension, extension,
                              out.signature, private_key(provider))
        /\ last' = Call("sign_vote_extension", "VoteExtension", extension,
                        extension, NoSignature, NoBytes, out)
        /\ UNCHANGED provider

VerifySignedVoteExtension ==
    \E extension \in Payloads, signature \in Signatures, pk \in PublicKeys :
        /\ last' = Call("verify_signed_vote_extension", "VoteExtension",
                        extension, extension, signature, pk,
                        verify_signed_vote_extension(provider, extension,
                                                     signature, pk))
        /\ UNCHANGED <<provider, signed>>

Sign ==
    \E data \in Payloads :
        LET signature == sign(provider, data) IN
        /\ signed' = Produced("Raw", data, data, signature, private_key(provider))
        /\ last' = Call("sign", "Raw", data, data, NoSignature, NoBytes,
                        [tag |-> "signature", val |-> signature])
        /\ UNCHANGED provider

Verify ==
    \E data \in Payloads, signature \in Signatures, pk \in PublicKeys :
        /\ last' = Call("verify", "Raw", data, data, signature, pk,
                        verify(provider, data, signature, pk))
        /\ UNCHANGED <<provider, signed>>

EncodeSignature ==
    \E signature \in Signatures :
        /\ last' = Call("encode_signature", "None", NoMessage, NoBytes, signature,
                        NoBytes,
                        [tag |-> "bytes", val |-> encode_signature(signature)])
        /\ UNCHANGED <<provider, signed>>

DecodeSignature ==
    \E bytes \in WireInputs \cup { encode_signature(s) : s \in Signatures } :
        /\ last' = Call("decode_signature", "None", NoMessage, bytes, NoSignature,
                        NoBytes, decode_signature(bytes))
        /\ UNCHANGED <<provider, signed>>

Next ==
    \/ New
    \/ NewTest
    \/ SignVote
    \/ VerifySignedVote
    \/ SignProposal
    \/ VerifySignedProposal
    \/ SignProposalPart
    \/ VerifySignedProposalPart
    \/ SignVoteExtension
    \/ VerifySignedVoteExtension
    \/ Sign
    \/ Verify
    \/ EncodeSignature
    \/ DecodeSignature

Spec == Init /\ [][Next]_vars

\* ------------------------------------------------------------------ claims

\* The latest call is a verify call of the variant of the latest signed
\* message, handed the signature that signing produced.
VerifiesSigned ==
    /\ last.op \in VerifyOps
    /\ signed.variant = last.variant
    /\ last.signature = signed.signature

\* The public key of the key that produced the latest signature.
SignerPublicKey == PrivateKey_public_key(signed.signer)

\* Two byte strings of one length that differ in exactly one byte.
DiffersInOneByte(a, b) ==
    /\ Len(a) = Len(b)
    /\ Cardinality({ i \in 1..Len(a) : a[i] # b[i] }) = 1

\* C1: a signature produced by sign_X (or sign) for a message verifies for
\* that same message under the signer's public key, whichever provider
\* instance runs the verify call.
RoundTrip ==
    ( /\ VerifiesSigned
      /\ last.message = signed.message
      /\ last.public_key = SignerPublicKey )
    => last.out = Bool(TRUE)

RoundTripWitness ==
    /\ VerifiesSigned
    /\ last.op = "verify_signed_proposal_part"
    /\ provider.private_key # signed.signer
    /\ last.message = signed.message
    /\ last.public_key = SignerPublicKey
    /\ last.out = Bool(TRUE)

\* C2: a signature produced for one message does not verify for a
\* different message of the same variant under the signer's public key,
\* messages whose serialization fails included.
TamperDetected ==
    ( /\ VerifiesSigned
      /\ last.variant \in StructuredVariants \cup {"VoteExtension"}
      /\ last.message # signed.message
      /\ last.public_key = SignerPublicKey )
    => last.out = Bool(FALSE)

\* C3: when the serialization of a vote, proposal or proposal part fails,
\* the bytes a sign or verify call works on are not the empty default.
NoSilentDefault ==
    ( /\ last.op \in SignOps \cup VerifyOps
      /\ last.variant \in StructuredVariants
      /\ ~bincode_serialize(last.message).ok )
    => last.bytes # <<>>

\* C4: a signature produced under one key does not verify, for the message
\* it was produced for, against the public key of a different key.
WrongKeyRejected ==
    ( /\ VerifiesSigned
      /\ last.message = signed.message
      /\ last.public_key # SignerPublicKey )
    => last.out = Bool(FALSE)

WrongKeyWitness ==
    /\ VerifiesSigned
    /\ last.op = "verify_signed_proposal"
    /\ last.message = signed.message
    /\ last.public_key # SignerPublicKey
    /\ last.public_key \in PublicKeys
    /\ last.out = Bool(FALSE)

\* C5: decode_signature fails with its length error exactly when the input
\* is not 64 bytes long, and succeeds on every 64-byte input.
DecodeChecksLengthOnly ==
    last.op = "decode_signature" =>
        /\ Len(last.bytes) # 64 =>
             /\ last.out.tag = "Err"
             /\ last.out.msg = "Invalid signature length"
        /\ Len(last.bytes) = 64 => last.out.tag = "Ok"

DecodeWitness ==
    /\ last.op = "decode_signature"
    /\ Len(last.bytes) = 128
    /\ last.out.tag = "Err"

\* C6: encode_signature yields exactly 64 bytes, and decoding the encoding
\* of a signature succeeds with that signature.
CodecRoundTrip ==
    /\ last.op = "encode_signature" => Len(last.out.val) = 64
    /\ last.op = "decode_signature" =>
         \A s \in Signatures :
             last.bytes = encode_signature(s) =>
                 /\ last.out.tag = "Ok"
                 /\ last.out.val = s

CodecWitness ==
    /\ last.op = "decode_signature"
    /\ signed.variant # "None"
    /\ last.bytes = encode_signature(signed.signature)
    /\ last.out.tag = "Ok"
    /\ last.out.val = signed.signature

\* C7: a vote extension is signed as it is: the envelope carries the
\* payload and the signature of the raw payload; that signature verifies
\* for the payload and not for a payload differing in one byte.
RawExtension ==
    /\ last.op = "sign_vote_extension" =>
         /\ last.out.message = last.message
         /\ last.out.signature = sign(new(signed.signer), last.message)
         /\ signed.bytes = last.message
    /\ ( /\ VerifiesSigned
         /\ last.op = "verify_signed_vote_extension"
         /\ last.public_key = SignerPublicKey ) =>
         /\ last.message = signed.message => last.out = Bool(TRUE)
         /\ DiffersInOneByte(last.message, signed.message)
              => last.out = Bool(FALSE)

RawExtensionWitness ==
    /\ VerifiesSigned
    /\ last.op = "verify_signed_vote_extension"
    /\ last.public_key = SignerPublicKey
    /\ DiffersInOneByte(last.message, signed.message)
    /\ last.out = Bool(FALSE)

\* C8: every verify call returns a boolean, and only decode_signature
\* returns a decoding error.
VerifyReturnsBool ==
    /\ last.op \in VerifyOps =>
         /\ last.out.tag = "bool"
         /\ last.out.val \in BOOLEAN
    /\ last.out.tag = "Err" => last.op = "decode_signature"

VerifyReturnsBoolWitness ==
    /\ last.op = "verify_signed_vote_extension"
    /\ last.signature \in ForeignSignatures
    /\ last.out = Bool(FALSE)

CrossVariantRejected ==
    ( /\ last.op \in VerifyOps
      /\ last.variant \in StructuredVariants \cup {"VoteExtension"}
      /\ signed.variant \in StructuredVariants \cup {"VoteExtension"}
      /\ signed.variant # last.variant
      /\ last.variant \in StructuredVariants => bincode_serialize(last.message).ok
      /\ signed.variant \in StructuredVariants => bincode_serialize(signed.message).ok
      /\ last.signature = signed.signature )
    => last.out = Bool(FALSE)

====
